---- MODULE Spec2Model ----
(***************************************************************************)
(* State-machine model of the Yandex Maps scraper:                         *)
(*   src/src/scraper.py    YandexMapsScraper.run and the methods it calls  *)
(*   src/src/decorators.py handle_errors                                   *)
(*   src/src/storage.py    DataManager export operations                   *)
(*                                                                         *)
(* The browser, the rendered page and the file system are the environment: *)
(* every call into them is a nondeterministic choice among the outcomes    *)
(* the call can have (a value, an empty value, an exception).              *)
(* A listing URL is identified with the listing it opens (1..NumHrefs).    *)
(*                                                                         *)
(* The specifications share the variables:                                 *)
(*   Spec        one call of run, _extract_details in outline              *)
(*   DetailSpec  one call of _extract_details from the photo block on      *)
(*               (scraper.py:343-465), with _extract_photos and            *)
(*               _extract_reviews step by step                             *)
(*   TextSpec    the pure functions (gallery URL, image URL upgrade,       *)
(*               rating / review-count extraction, link normalisation,     *)
(*               export flattening) on bounded inputs                      *)
(*   DiscoverySpec  _scroll_and_collect_results alone, with fairness       *)
(*   ShotSpec    src/website_screenshotter/screenshotter.py:               *)
(*               process_websites and its per-website tasks                *)
(* A string is a sequence of tokens; a token is a character or a word that *)
(* the code only ever handles whole ("gallery", "_height", ...).           *)
(***************************************************************************)
EXTENDS Integers, Sequences, FiniteSets, TLC

\* ---------------------------------------------------------------- bounds
NumHrefs == 2          \* distinct listing URLs the site can show; also the
                       \* largest number of snippets rendered at once
MaxResults == 2        \* max_results is drawn from 1..MaxResults
NumImgs == 3           \* most image elements the gallery exposes
MaxPhotos == 2         \* max_photos is drawn from 0..MaxPhotos
NumReviewItems == 6    \* most review items the page renders
MaxUrlLen == 3         \* longest URL handed to the gallery-URL construction
MaxSrcLen == 4         \* longest image URL handed to the upgrade
MaxLabelLen == 4       \* longest label handed to the number extraction
MaxLinkLen == 5        \* longest discovered link handed to the normalisation
MaxCountLen == 2       \* longest review-count text of an exported record
NumSites == 6          \* most rows with a website in the CSV file

\* ------------------------------------------------------ program constants
max_attempts == 5      \* scraper.py:217
NumLinkSelectors == 4  \* scraper.py:230-235, the four link selectors
SemaphoreValue == 5
ReviewLimit == 5       \* scraper.py:723, review_items[:5]

Hrefs == 1..NumHrefs
NoHref == 0            \* href = None (scraper.py:228)
SelectorRaises == -1   \* the `except: continue` case (scraper.py:243)

Min(a, b) == IF a < b THEN a ELSE b

VARIABLES
    \* configuration (YandexMapsScraper.__init__)
    max_results,       \* self.max_results
    on_progress,       \* TRUE iff a progress callback is installed
    scrape_photos,     \* self.scrape_photos
    scrape_reviews,    \* self.scrape_reviews
    \* run
    pc,                \* position in run
    driver,            \* self.driver: "None", "open" or "quit"
    session_dir,       \* data_manager.current_session_dir is set
    place_links,       \* list returned by _scroll_and_collect_results
    total_links,       \* len(place_links)
    i,                 \* loop variable of `for i, link in enumerate(place_links)`
    page,              \* listing whose page the browser shows (0: none)
    extracted_data,    \* the aggregate list of records
    place_data,        \* result of _extract_details: <<>> for None, <<record>>
    \* _scroll_and_collect_results locals
    links,             \* the set of collected hrefs
    last_count, current_count, attempts,
    el,                \* index of the snippet being read in `for el in elements`
    sel,               \* index of the selector being tried in `for sel in selectors`
    \* _extract_details locals
    st,                \* index of the extraction step being executed
    fsel,              \* index of the selector tried by _get_text / _get_attribute
    val,               \* TRUE iff the field being filled has a value so far
    name,              \* the extracted name ("" when none)
    \* history variables (not program state)
    exitPath,          \* which return statement of the discovery loop was taken
    noGrowthRun,       \* consecutive latest iterations whose count did not grow
    constRun,          \* consecutive latest iterations whose count stayed the same
    viaFirst,          \* hrefs collected through the first selector
    crossDup,          \* an href was collected again through another selector
    attempted,         \* listings whose loop body was entered
    status,            \* per attempted listing: "record", "timeout" or "error"
    dropCause,         \* why the listing in progress yields no record
    exportLog,         \* the export operations invoked, with argument and result
    fatal,             \* cause that sent run to its `except Exception` handler
    interrupted,       \* a KeyboardInterrupt was delivered
    searchResult,      \* how _perform_search ended ("none" before it ran)
    outcome,           \* "RUNNING", "DONE", "FAILED" or "INTERRUPTED"
    progressLog,       \* the (completed, total) pairs the callback was called with
    folders,           \* listing indexes for which create_place_folder made a folder
    \* _extract_details from line 343 on, _extract_photos, _extract_reviews
    max_photos,        \* self.max_photos
    current_url,       \* self.driver.current_url
    imgs,              \* len(imgs), the image elements found in the gallery
    img_i,             \* `i` of `for i, img in enumerate(imgs[:self.max_photos])`
    downloaded_paths,  \* _extract_photos' list; a path is its file number
    photos,            \* _extract_details' `photos`
    review_items,      \* len(review_items)
    item_i,            \* index of the item being parsed in review_items[:5]
    reviews,           \* _extract_reviews' list
    data_dict,         \* the dict `data` (scraper.py:441): <<>> before it is built
    \* history variables of DetailSpec
    accepted,          \* file numbers whose response was 200 with > 1000 bytes
    rejected,          \* file numbers whose download was rejected or raised
    loopAborted,       \* the image loop was left through the outer handler
    capped,            \* the gallery exposed more images than max_photos
    galleryClicked,    \* the gallery button was clicked
    galleryNavigated,  \* driver.get(gallery_url) was carried out
    downloadTried,     \* session.get was called for some image
    tabSwitched,       \* the reviews tab was clicked
    navigatedBack,     \* driver.get(main_url) of line 379 was carried out
    fieldsRead,        \* the text fields of lines 386-438 were extracted
    \* TextSpec
    fn,                \* which function is applied
    input,             \* its argument
    output,            \* its result
    \* WebsiteScreenshotter (ShotSpec)
    num_tasks,         \* len(tasks): the rows that carry a website
    main_pc,           \* position of process_websites
    browser,           \* the Chromium instance: "none", "open" or "closed"
    semaphore,         \* the semaphore's free permits
    task_pc,           \* per task: position of _process_single_website
    leaked             \* TRUE iff a task has ended with a browser context still open

confVars == <<max_results, on_progress, scrape_photos, scrape_reviews>>
runVars  == <<driver, session_dir, place_links, total_links, i, page,
              extracted_data, place_data>>
exVars   == <<st, fsel, val, name>>
histVars == <<attempted, status, dropCause, exportLog, fatal, interrupted, searchResult,
              outcome>>
discLocals == <<links, last_count, current_count, attempts, el, sel>>
discHist == <<exitPath, noGrowthRun, constRun, viaFirst, crossDup>>
loopVars == <<total_links, i, page, extracted_data, place_data>>
photoLocals == <<imgs, img_i, downloaded_paths>>
photoHist == <<accepted, rejected, loopAborted>>
reviewLocals == <<review_items, item_i, reviews>>
detailHist == <<capped, galleryClicked, galleryNavigated, downloadTried, tabSwitched,
                navigatedBack, fieldsRead>>
detailVars == <<max_photos, current_url, photoLocals, photos, reviewLocals, data_dict,
                photoHist, detailHist>>
textVars == <<fn, input, output>>
shotVars == <<num_tasks, main_pc, browser, semaphore, task_pc, leaked>>
scraperVars == <<confVars, pc, runVars, discLocals, discHist, exVars, histVars,
                 detailVars, textVars, progressLog, folders>>
auxRest == <<detailVars, textVars, shotVars>>
auxVars == <<auxRest, progressLog, folders>>

vars == <<max_results, on_progress, scrape_photos, scrape_reviews,
          pc, driver, session_dir, place_links, total_links, i, page,
          extracted_data, place_data,
          links, last_count, current_count, attempts, el, sel,
          st, fsel, val, name,
          exitPath, noGrowthRun, constRun, viaFirst, crossDup,
          attempted, status, dropCause, exportLog, fatal, interrupted, searchResult,
          outcome,
          max_photos, current_url, imgs, img_i, downloaded_paths, photos,
          review_items, item_i, reviews, data_dict,
          accepted, rejected, loopAborted, capped, galleryClicked, galleryNavigated,
          downloadTried, tabSwitched, navigatedBack, fieldsRead,
          fn, input, output,
          progressLog, folders,
          num_tasks, main_pc, browser, semaphore, task_pc, leaked>>

\* ------------------------------------------------------------ run: errors

\* run's `except Exception as e: logger.critical(...)` (scraper.py:182-183):
\* the exception is logged and control falls into the finally block.
RunRaises(cause) ==
    /\ pc' = "finally"
    /\ fatal' = cause

\* An exception that leaves _scroll_and_collect_results or _extract_details
\* unwinds the method's frame: its locals (and the history kept about the
\* call) are gone.
DiscoveryFrameGone ==
    /\ links' = {} /\ last_count' = 0 /\ current_count' = 0 /\ attempts' = 0
    /\ el' = 1 /\ sel' = 1
    /\ exitPath' = "none" /\ noGrowthRun' = 0 /\ constRun' = 0
    /\ viaFirst' = {} /\ crossDup' = FALSE

ExtractFrameGone ==
    /\ st' = 1 /\ fsel' = 1 /\ val' = FALSE /\ name' = ""

\* -------------------------------------------- _scroll_and_collect_results

\* What one selector yields on one snippet (scraper.py:238-244):
\* find_element or get_attribute raises (SelectorRaises), the element
\* carries no href (NoHref), or it carries an href.
LinkOutcomes == {SelectorRaises, NoHref} \cup Hrefs

\* href after trying one selector: the href when truthy, else still None.
TrySelector(o) == IF o \in Hrefs THEN o ELSE NoHref

\* links.add(href) on a Python set.
LinksAdd(ls, href) == ls \cup {href}

\* list(links): a set has no contractual order, so every duplicate-free
\* enumeration of it is a possible list.
ListsOf(S) ==
    {q \in [1..Cardinality(S) -> S] : \A a, b \in 1..Cardinality(S) : a # b => q[a] # q[b]}

\* lst[:n]
SliceNoLimit(lst, n) == lst
Slice(lst, n) == SubSeq(lst, 1, Min(n, Len(lst)))

\* `return list(links)[:self.max_results]` (scraper.py:253, 259, 273)
ReturnLinks(path) ==
    /\ \E lst \in ListsOf(links) : place_links' = Slice(lst, max_results)
    /\ exitPath' = path
    /\ pc' = "returned"

\* scraper.py:222-223: elements = find_elements(...); current_count = len(elements).
\* find_elements may raise: nothing in the method catches it.
ScrollFind ==
    /\ pc = "scroll_find"
    /\ \/ \E n \in 0..NumHrefs :
            /\ current_count' = n
            /\ el' = 1
            /\ sel' = 1
            /\ pc' = "collect"
            /\ UNCHANGED fatal
            /\ UNCHANGED <<links, last_count, attempts, discHist>>
       \/ /\ RunRaises("discovery")
          /\ DiscoveryFrameGone
    /\ UNCHANGED <<confVars, auxVars, runVars, exVars,
                   attempted, status, dropCause, exportLog, interrupted, outcome, searchResult>>

\* scraper.py:226-249: one pass of `for sel in selectors` for snippet el.
\* Both except clauses are bare, so nothing raised here leaves the loop.
CollectLink ==
    /\ pc = "collect"
    /\ el <= current_count
    /\ \E o \in LinkOutcomes :
        LET href == TrySelector(o) IN
        IF href # NoHref
        THEN /\ links' = LinksAdd(links, href)
             /\ crossDup' = (crossDup \/ (href \in viaFirst /\ sel # 1))
             /\ viaFirst' = IF sel = 1 THEN viaFirst \cup {href} ELSE viaFirst
             /\ el' = el + 1
             /\ sel' = 1
        ELSE /\ IF sel < NumLinkSelectors
                THEN sel' = sel + 1 /\ el' = el
                ELSE sel' = 1 /\ el' = el + 1
             /\ UNCHANGED <<links, crossDup, viaFirst>>
    /\ UNCHANGED <<confVars, auxVars, runVars, exVars, histVars, pc,
                   last_count, current_count, attempts, exitPath, noGrowthRun, constRun>>

\* The no-growth run length after this iteration (history).
NoGrowthAfter == IF current_count <= last_count THEN Min(noGrowthRun + 1, max_attempts) ELSE 0

\* The constant-count run length after this iteration (history).
ConstRunAfter == IF current_count = last_count THEN Min(constRun + 1, max_attempts + 1) ELSE 0

\* `if attempts >= max_attempts:` (scraper.py:257)
StallReachedLate(a) == a > max_attempts
StallReached(a) == a >= max_attempts

\* scraper.py:255-261: the stall counter
AttemptsNoReset == IF current_count = last_count THEN attempts + 1 ELSE attempts
AttemptsAfter == IF current_count = last_count THEN attempts + 1 ELSE 0

\* scraper.py:251-271: the rest of the loop body once every snippet is read.
EndIteration ==
    /\ pc = "collect"
    /\ el > current_count
    /\ UNCHANGED <<confVars, auxVars, exVars, histVars, driver, session_dir, loopVars,
                   links, current_count, el, sel, viaFirst, crossDup>>
    /\ IF Cardinality(links) >= max_results
       THEN /\ ReturnLinks("target")
            /\ UNCHANGED <<last_count, attempts, noGrowthRun, constRun>>
       ELSE /\ noGrowthRun' = NoGrowthAfter
            /\ constRun' = ConstRunAfter
            /\ attempts' = AttemptsAfter
            /\ IF current_count = last_count /\ StallReached(attempts')
               THEN /\ ReturnLinks("stall")
                    /\ UNCHANGED last_count
               ELSE /\ last_count' = current_count
                    /\ \/ /\ pc' = "scroll_find"      \* scrolled (or nothing to scroll)
                          /\ UNCHANGED <<place_links, exitPath>>
                       \/ /\ current_count > 0        \* execute_script raised: break
                          /\ ReturnLinks("scroll_error")

\* ------------------------------------------------------- run: the prelude

BrowserTypes == {"chrome", "firefox", "edge", "safari", "other"}

\* setup_driver (scraper.py:46-118) assigns self.driver only on the firefox
\* and edge branches: the chrome and safari branches read sys.platform
\* (lines 60 and 103) and the module never imports sys, so they raise
\* NameError before a driver exists; any other name raises ValueError
\* (line 115). `ok` is whether the driver manager and the browser start.
SetupDriverCreates(browser_type, ok) == browser_type \in {"firefox", "edge"} /\ ok

\* scraper.py:124
SetupDriver ==
    /\ pc = "setup_driver"
    /\ \E browser_type \in BrowserTypes, ok \in BOOLEAN :
        IF SetupDriverCreates(browser_type, ok)
        THEN driver' = "open" /\ pc' = "setup_session" /\ UNCHANGED fatal
        ELSE RunRaises("setup_driver") /\ UNCHANGED driver
    /\ UNCHANGED <<confVars, auxVars, session_dir, place_links, loopVars, discLocals, discHist,
                   exVars, attempted, status, dropCause, exportLog, interrupted, outcome, searchResult>>

\* scraper.py:125 and storage.py:21-28: current_session_dir is assigned
\* before os.makedirs, which may raise.
SetupSessionDirectory ==
    /\ pc = "setup_session"
    /\ session_dir' = TRUE
    /\ \/ pc' = "open_maps" /\ UNCHANGED fatal
       \/ RunRaises("session_dir")
    /\ UNCHANGED <<confVars, auxVars, driver, place_links, loopVars, discLocals, discHist,
                   exVars, attempted, status, dropCause, exportLog, interrupted, outcome, searchResult>>

\* scraper.py:127: self.driver.get("https://yandex.ru/maps")
OpenMaps ==
    /\ pc = "open_maps"
    /\ \/ pc' = "perform_search" /\ UNCHANGED fatal
       \/ RunRaises("open_maps")
    /\ UNCHANGED <<confVars, auxVars, driver, session_dir, place_links, loopVars, discLocals,
                   discHist, exVars, attempted, status, dropCause, exportLog,
                   interrupted, outcome, searchResult>>

\* _perform_search (scraper.py:188-206): the search input or the results
\* container may time out (TimeoutException: logged and re-raised), and
\* clear / send_keys may raise anything else (not caught at all).
SearchOutcomes == {"ok", "input_timeout", "results_timeout", "error"}
PerformSearchSwallowsTimeout(o) == o = "error"
PerformSearchRaises(o) == o # "ok"
SearchCause(o) == IF o = "error" THEN "search_error" ELSE "search_timeout"

\* scraper.py:130
PerformSearch ==
    /\ pc = "perform_search"
    /\ \E o \in SearchOutcomes :
        /\ searchResult' = o
        /\ IF PerformSearchRaises(o)
           THEN RunRaises(SearchCause(o))
           ELSE pc' = "progress0" /\ UNCHANGED fatal
    /\ UNCHANGED <<confVars, auxVars, driver, session_dir, place_links, loopVars, discLocals,
                   discHist, exVars, attempted, status, dropCause, exportLog,
                   interrupted, outcome>>

\* A call of the installed progress callback: it returns or it raises.
\* Every call site is inside run's outer try only (scraper.py:133-134,
\* 146-147, 170-171).
\* progressLog records the arguments of each call made.
CallProgress(next, args) ==
    IF on_progress
    THEN /\ progressLog' = Append(progressLog, args)
         /\ \/ pc' = next /\ UNCHANGED fatal
            \/ RunRaises("callback")
    ELSE pc' = next /\ UNCHANGED <<fatal, progressLog>>

\* The (completed, total) arguments of `self.on_progress(i, total_links,
\* ...)` (scraper.py:147)
ListingProgressRemaining(k, n) == <<n - k, n>>
ListingProgress(k, n) == <<k, n>>

\* scraper.py:133-134
ProgressStart ==
    /\ pc = "progress0"
    /\ CallProgress("scroll_find", <<0, max_results>>)
    /\ UNCHANGED <<confVars, auxRest, folders, driver, session_dir, place_links, loopVars, discLocals,
                   discHist, exVars, attempted, status, dropCause, exportLog,
                   interrupted, outcome, searchResult>>

\* scraper.py:136-140: the list is bound, the method's locals are gone.
AfterDiscovery ==
    /\ pc = "returned"
    /\ total_links' = Len(place_links)
    /\ extracted_data' = <<>>
    /\ i' = 0
    /\ pc' = "loop"
    /\ DiscoveryFrameGone
    /\ UNCHANGED <<confVars, auxVars, driver, session_dir, place_links, page, place_data,
                   exVars, histVars>>

\* ------------------------------------------------- run: the listing loop

\* `for i, link in enumerate(place_links)` has another element.
LoopSkipsLast(k, n) == k + 1 < n
LoopContinues(k, n) == k < n

\* _extract_details(i + 1, query) (scraper.py:161): the index of listing i.
ListingIndexZeroBased(k) == k
ListingIndex(k) == k + 1

\* scraper.py:142-144 and, once the list is exhausted, the fall-through
\* to line 169.
LoopHead ==
    /\ pc = "loop"
    /\ IF LoopContinues(i, total_links)
       THEN /\ attempted' = attempted \cup {i + 1}
            /\ pc' = "progress"
       ELSE /\ pc' = "progress_final"
            /\ UNCHANGED attempted
    /\ UNCHANGED <<confVars, auxVars, runVars, discLocals, discHist, exVars,
                   status, dropCause, exportLog, fatal, interrupted, outcome, searchResult>>

\* scraper.py:146-147
ProgressListing ==
    /\ pc = "progress"
    /\ CallProgress("navigate", ListingProgress(i, total_links))
    /\ UNCHANGED <<confVars, auxRest, folders, runVars, discLocals, discHist, exVars,
                   attempted, status, dropCause, exportLog, interrupted, outcome, searchResult>>

\* Where the handler `except Exception as e: logger.error(...); continue`
\* (scraper.py:165-167) sends control.
InnerExceptAborts == "finally"
InnerExceptTarget == "loop"

\* The handler of scraper.py:165-167 for the listing in progress.
ListingRaised ==
    /\ status' = Append(status, "error")
    /\ i' = IF InnerExceptTarget = "loop" THEN i + 1 ELSE i
    /\ pc' = InnerExceptTarget

\* scraper.py:150-159: the link is stripped of its gallery markers and
\* opened; driver.get may raise.
Navigate ==
    /\ pc = "navigate"
    /\ \/ /\ page' = place_links[i + 1]
          /\ pc' = "extract"
          /\ st' = 1
          /\ UNCHANGED <<status, i>>
       \/ /\ ListingRaised
          /\ UNCHANGED <<page, st>>
    /\ UNCHANGED <<confVars, auxVars, driver, session_dir, place_links, total_links,
                   extracted_data, place_data, discLocals, discHist, fsel, val, name,
                   attempted, dropCause, exportLog, fatal, interrupted, outcome, searchResult>>

\* ------------------------------------------------------ _extract_details

\* The steps of _extract_details in source order. kind: what the step does;
\* nsel: the number of selectors handed to _get_text / _get_attribute;
\* fallback: the step runs only when the field is still empty.
Step(kind, field, nsel, fallback) ==
    [kind |-> kind, field |-> field, nsel |-> nsel, fallback |-> fallback]

Plan == <<
    Step("wait",    "",              0, FALSE),   \* 280-286
    Step("script",  "",              0, FALSE),   \* 289-295
    Step("text",    "name",          4, FALSE),   \* 298-303
    Step("attr",    "name",          1, TRUE),    \* 304-305
    Step("list",    "category",      0, FALSE),   \* 309-320
    Step("text",    "category",      4, TRUE),    \* 323-329
    Step("text",    "description",   5, FALSE),   \* 332-338
    Step("folder",  "",              0, FALSE),   \* 341
    Step("photos",  "",              0, FALSE),   \* 343-384
    Step("quiet",   "features",      0, FALSE),   \* 389-407
    Step("attr",    "address",       1, FALSE),   \* 410
    Step("text",    "address",       3, TRUE),    \* 411-416
    Step("attr",    "website",       2, FALSE),   \* 419
    Step("text",    "website",       1, TRUE),    \* 420-421
    Step("text",    "phone",         3, FALSE),   \* 424-428
    Step("list",    "working_hours", 0, FALSE),   \* 431
    Step("text",    "working_hours", 1, TRUE),    \* 432-435
    Step("quiet",   "social_media",  0, FALSE),   \* 438
    Step("text",    "rating",        2, FALSE),   \* 450, 546-558
    Step("text",    "reviews_count", 6, FALSE),   \* 451, 560-576
    Step("build",   "",              0, FALSE),   \* 441-457
    Step("reviews", "",              0, FALSE) >> \* 460-465

\* What one selector yields inside _get_text (scraper.py:488-500):
\*   nosuch     find_element raises NoSuchElementException
\*   text       el.text is non-empty
\*   hidden     el.text is empty, textContent is non-empty
\*   blank      el.text and textContent are both empty
\*   nocontent  el.text is empty and get_attribute("textContent") is None,
\*              so .strip() raises AttributeError
\*   stale      find_element, .text or get_attribute raises another
\*              exception (StaleElementReferenceException, ...)
TextOutcomes == {"nosuch", "text", "hidden", "blank", "nocontent", "stale"}

\* One pass of the loop of _get_text: "return" a value, "continue" with the
\* next selector, or "raise" (only NoSuchElementException is caught).
GetTextTry(o) ==
    CASE o \in {"text", "hidden"} -> "return"
      [] o \in {"nosuch", "blank"} -> "continue"
      [] OTHER -> "raise"

\* What one selector yields inside _get_attribute (scraper.py:523-530):
\* no element, an attribute value, no value, or another exception.
AttrOutcomes == {"nosuch", "value", "novalue", "stale"}

\* One pass of the loop of _get_attribute.
GetAttributeTry(o) ==
    CASE o = "value" -> "return"
      [] o \in {"nosuch", "novalue"} -> "continue"
      [] OTHER -> "raise"

\* handle_errors(default_return=None) around _extract_details
\* (decorators.py:45-52, scraper.py:275): an exception inside the method is
\* logged and None is returned. The TimeoutException of the header wait
\* returns None itself (scraper.py:284-286).
ReturnNone(cause) ==
    /\ place_data' = <<>>
    /\ dropCause' = cause
    /\ pc' = "extracted"

\* The record built at scraper.py:441-457 ("name" is the extracted name,
\* "link" the page the browser shows); search_query is set later by run.
Record(index) ==
    [id |-> index, link |-> page, name |-> name, search_query |-> ""]

NextStep ==
    /\ st' = st + 1
    /\ fsel' = 1
    /\ pc' = IF st = Len(Plan) THEN "extracted" ELSE "extract"

\* A step that calls the browser or the file system outside any try block:
\* it completes or it raises.
MayRaise(cause) ==
    \/ NextStep /\ UNCHANGED <<place_data, dropCause>>
    \/ ReturnNone(cause) /\ UNCHANGED <<st, fsel>>

\* create_place_folder(name, index) (storage.py:30-43, called at
\* scraper.py:341): os.makedirs creates the listing's folder, then its photos
\* folder; the second call may raise after the first has made the folder.
FolderMade(made, index) == made \cup {index}

\* One step of _extract_details(i + 1, query).
ExtractStep ==
    /\ pc = "extract"
    /\ LET s == Plan[st] IN
       CASE s.kind = "wait" ->
              /\ \/ NextStep /\ UNCHANGED <<place_data, dropCause>>
                 \/ ReturnNone("timeout") /\ UNCHANGED <<st, fsel>>
                 \/ ReturnNone("wait_error") /\ UNCHANGED <<st, fsel>>
              /\ UNCHANGED <<val, name>>
         [] s.kind = "script" ->
              /\ MayRaise(s.kind)
              /\ val' = FALSE
              /\ UNCHANGED name
         [] s.kind = "folder" ->
              /\ \/ /\ NextStep
                    /\ folders' = FolderMade(folders, ListingIndex(i))
                    /\ UNCHANGED <<place_data, dropCause>>
                 \/ /\ ReturnNone(s.kind)
                    /\ \/ UNCHANGED folders
                       \/ folders' = FolderMade(folders, ListingIndex(i))
                    /\ UNCHANGED <<st, fsel>>
              /\ val' = FALSE
              /\ UNCHANGED name
         [] s.kind = "photos" ->
              /\ IF scrape_photos
                 THEN MayRaise("photos")
                 ELSE NextStep /\ UNCHANGED <<place_data, dropCause>>
              /\ val' = FALSE
              /\ UNCHANGED name
         [] s.kind \in {"quiet", "reviews"} ->
              /\ NextStep
              /\ val' = FALSE
              /\ UNCHANGED <<place_data, dropCause, name>>
         [] s.kind = "list" ->
              /\ NextStep
              /\ val' \in BOOLEAN
              /\ UNCHANGED <<place_data, dropCause, name>>
         [] s.kind = "build" ->
              /\ \/ /\ place_data' = <<Record(ListingIndex(i))>>
                    /\ NextStep
                    /\ UNCHANGED dropCause
                 \/ ReturnNone("build") /\ UNCHANGED <<st, fsel>>
              /\ val' = FALSE
              /\ UNCHANGED name
         [] s.kind \in {"text", "attr"} ->
              IF s.fallback /\ val
              THEN /\ NextStep
                   /\ UNCHANGED <<place_data, dropCause, val, name>>
              ELSE \E o \in (IF s.kind = "text" THEN TextOutcomes ELSE AttrOutcomes) :
                   LET r == IF s.kind = "text" THEN GetTextTry(o) ELSE GetAttributeTry(o)
                       found == r = "return"
                   IN
                   IF r = "raise"
                   THEN /\ ReturnNone("field")
                        /\ UNCHANGED <<st, fsel, val, name>>
                   ELSE /\ IF found \/ fsel = s.nsel
                           THEN /\ NextStep
                                /\ val' = found
                                /\ name' = IF s.field = "name" /\ found THEN "name" ELSE name
                           ELSE /\ fsel' = fsel + 1
                                /\ UNCHANGED <<st, pc, val, name>>
                        /\ UNCHANGED <<place_data, dropCause>>
    /\ IF Plan[st].kind = "folder" THEN TRUE ELSE UNCHANGED folders
    /\ UNCHANGED <<confVars, auxRest, progressLog, driver, session_dir, place_links, total_links,
                   i, page, extracted_data, discLocals, discHist,
                   attempted, status, exportLog, fatal, interrupted, outcome, searchResult>>

\* `if place_data: extracted_data.append(place_data)` (scraper.py:162-163)
AppendAlways(data, result) == IF result = <<>> THEN Append(data, Record(0)) ELSE data \o result
AppendResult(data, result) == IF result # <<>> THEN data \o result ELSE data

\* scraper.py:161-163: _extract_details has returned.
AfterExtract ==
    /\ pc = "extracted"
    /\ extracted_data' = AppendResult(extracted_data, place_data)
    /\ status' = Append(status, IF place_data # <<>> THEN "record"
                                ELSE IF dropCause = "timeout" THEN "timeout" ELSE "error")
    /\ i' = i + 1
    /\ pc' = "loop"
    /\ place_data' = <<>>
    /\ dropCause' = "none"
    /\ ExtractFrameGone
    /\ UNCHANGED <<confVars, auxVars, driver, session_dir, place_links, total_links, page,
                   discLocals, discHist, attempted, exportLog, fatal, interrupted, outcome, searchResult>>

\* ------------------------------------------------------ run: the exports

\* scraper.py:170-171
ProgressFinal ==
    /\ pc = "progress_final"
    /\ CallProgress("stamp", <<total_links, total_links>>)
    /\ UNCHANGED <<confVars, auxRest, folders, runVars, discLocals, discHist, exVars,
                   attempted, status, dropCause, exportLog, interrupted, outcome, searchResult>>

\* scraper.py:174-175: item['search_query'] = query for every record.
StampQuery ==
    /\ pc = "stamp"
    /\ extracted_data' = [k \in 1..Len(extracted_data) |->
                             [extracted_data[k] EXCEPT !.search_query = "query"]]
    /\ pc' = "save_json"
    /\ UNCHANGED <<confVars, auxVars, driver, session_dir, place_links, total_links, i, page,
                   place_data, discLocals, discHist, exVars, histVars>>

\* The export operations in the order run calls them (scraper.py:177-180).
ExportOps == <<"save_json", "export_to_csv", "save_to_sqlite", "export_to_excel">>

RECURSIVE IndexOf(_, _, _)
IndexOf(seq, x, k) == IF seq[k] = x THEN k ELSE IndexOf(seq, x, k + 1)

\* The operation called after op, or the finally block after the last one.
AfterExport(op) ==
    LET k == IndexOf(ExportOps, op, 1) IN
    IF k < Len(ExportOps) THEN ExportOps[k + 1] ELSE "finally"

\* The guard at the top of each operation (storage.py:48, 67, 124, 177):
\* save_json needs the session directory, the others also a non-empty list.
ExportSkips(op, data) ==
    \/ ~session_dir
    \/ (op # "save_json" /\ data = <<>>)

\* The value an export operation returns: "" from its guard or from its
\* `except Exception` handler (storage.py:57-59, 115-117, 170-172,
\* 226-228), the file path otherwise. `fails` is whether writing raises.
ExportResult(op, data, fails) ==
    IF ExportSkips(op, data) \/ fails THEN "" ELSE "path"

\* Whether an exception of the write leaves the operation.
ExportPropagates(op, data, fails) == ~ExportSkips(op, data) /\ fails
ExportRaises(op, data, fails) == FALSE

\* scraper.py:177-180: one export operation, called on extracted_data.
Export ==
    /\ pc \in {ExportOps[k] : k \in 1..Len(ExportOps)}
    /\ \E fails \in BOOLEAN :
        /\ exportLog' = Append(exportLog,
               [op |-> pc, data |-> extracted_data,
                failed |-> (fails /\ ~ExportSkips(pc, extracted_data)),
                ret |-> ExportResult(pc, extracted_data, fails)])
        /\ IF ExportRaises(pc, extracted_data, fails)
           THEN RunRaises("export")
           ELSE pc' = AfterExport(pc) /\ UNCHANGED fatal
    /\ UNCHANGED <<confVars, auxVars, runVars, discLocals, discHist, exVars,
                   attempted, status, dropCause, interrupted, outcome, searchResult>>

\* ------------------------------------------------ run: interrupt, finally

\* Positions inside run's try block (scraper.py:124-180) at which a
\* KeyboardInterrupt propagates to the finally block: `except Exception`
\* does not catch it. In the link-collection loop both except clauses are
\* bare (scraper.py:243, 248) and swallow it like any other exception,
\* which CollectLink's SelectorRaises outcome covers.
Interruptible ==
    {"setup_driver", "setup_session", "open_maps", "perform_search", "progress0",
     "scroll_find", "returned", "loop", "progress", "navigate", "extract",
     "extracted", "progress_final", "stamp"} \cup {ExportOps[k] : k \in 1..Len(ExportOps)}

Interrupt ==
    /\ pc \in Interruptible
    /\ interrupted' = TRUE
    /\ pc' = "finally"
    /\ DiscoveryFrameGone
    /\ ExtractFrameGone
    /\ UNCHANGED <<confVars, auxVars, runVars,
                   attempted, status, dropCause, exportLog, fatal, outcome, searchResult>>

\* `finally: if self.driver: self.driver.quit()` (scraper.py:184-186)
QuitOnSuccessOnly(d) == IF d = "open" /\ fatal = "none" /\ ~interrupted THEN "quit" ELSE d
DriverAfterFinally(d) == IF d = "open" THEN "quit" ELSE d

Finally ==
    /\ pc = "finally"
    /\ driver' = DriverAfterFinally(driver)
    /\ pc' = "done"
    /\ outcome' = IF interrupted THEN "INTERRUPTED"
                  ELSE IF fatal # "none" THEN "FAILED" ELSE "DONE"
    /\ UNCHANGED <<confVars, auxVars, session_dir, place_links, loopVars, discLocals, discHist,
                   exVars, attempted, status, dropCause, exportLog, fatal, interrupted, searchResult>>

\* --------------------------------------------------------------- strings

\* All strings of at most n tokens over an alphabet.
StringsOver(alphabet, n) == UNION {[1..k -> alphabet] : k \in 0..n}

\* `t in s` of Python for strings.
Contains(s, t) == \E k \in 0..(Len(s) - Len(t)) : SubSeq(s, k + 1, k + Len(t)) = t

\* str.replace(old, new): the occurrences of old, left to right and without
\* overlap, are replaced by new.
RECURSIVE Replace(_, _, _)
Replace(s, old, new) ==
    IF Len(s) < Len(old) THEN s
    ELSE IF SubSeq(s, 1, Len(old)) = old
         THEN new \o Replace(SubSeq(s, Len(old) + 1, Len(s)), old, new)
         ELSE <<Head(s)>> \o Replace(Tail(s), old, new)

\* str.rstrip(c)
RECURSIVE RStrip(_, _)
RStrip(s, c) == IF s # <<>> /\ s[Len(s)] = c THEN RStrip(SubSeq(s, 1, Len(s) - 1), c) ELSE s

\* Position of the first token of s that lies in set C (Len(s) + 1: none).
RECURSIVE FirstIn(_, _, _)
FirstIn(s, C, k) == IF k > Len(s) \/ s[k] \in C THEN k ELSE FirstIn(s, C, k + 1)

\* Position after the longest run of tokens of C that starts at k.
RECURSIVE RunEnd(_, _, _)
RunEnd(s, C, k) == IF k <= Len(s) /\ s[k] \in C THEN RunEnd(s, C, k + 1) ELSE k

\* The marker the code looks for in a URL (scraper.py:358, 376, 378).
GalleryMarker == <<"/", "gallery", "/">>

\* scraper.py:360-364: the gallery URL built from the current URL.
\*   base, qry = current_url.split("?", 1); f"{base}gallery/?{qry}"
\*   f"{current_url.rstrip('/')}/gallery/"
GalleryUrl(url) ==
    IF Contains(url, <<"?">>)
    THEN LET q == FirstIn(url, {"?"}, 1) IN
         SubSeq(url, 1, q - 1) \o <<"gallery", "/", "?">> \o SubSeq(url, q + 1, Len(url))
    ELSE RStrip(url, "/") \o <<"/", "gallery", "/">>

\* scraper.py:378: main_url = current_url.replace("/gallery/", "/")
MainUrl(url) == Replace(url, GalleryMarker, <<"/">>)

\* The query marker of gallery mode (scraper.py:154).
TabGalleryMarker == <<"tab=", "gallery">>

\* re.sub(r'tab=gallery&?', '', s): the matches, left to right and without
\* overlap, are removed; a match takes the "&" after it when there is one.
RECURSIVE ReSubTabGallery(_)
ReSubTabGallery(s) ==
    IF Len(s) < Len(TabGalleryMarker) THEN s
    ELSE IF SubSeq(s, 1, Len(TabGalleryMarker)) = TabGalleryMarker
         THEN LET n == IF Len(s) > Len(TabGalleryMarker) /\ s[Len(TabGalleryMarker) + 1] = "&"
                       THEN Len(TabGalleryMarker) + 1
                       ELSE Len(TabGalleryMarker)
              IN ReSubTabGallery(SubSeq(s, n + 1, Len(s)))
         ELSE <<Head(s)>> \o ReSubTabGallery(Tail(s))

\* scraper.py:151-156: the URL run opens for a discovered link.
NormalizeUrl(link) ==
    LET main_url == IF Contains(link, GalleryMarker)
                    THEN Replace(link, GalleryMarker, <<"/">>)
                    ELSE link
    IN IF Contains(main_url, TabGalleryMarker) THEN ReSubTabGallery(main_url) ELSE main_url

\* str(n) for a non-negative integer: its decimal numeral.
DigitNames == <<"1", "2", "3", "4", "5", "6", "7", "8", "9">>
RECURSIVE Numeral(_)
Numeral(n) ==
    IF n = 0 THEN <<"0">>
    ELSE IF n < 10 THEN <<DigitNames[n]>>
    ELSE Numeral(n \div 10) \o <<DigitNames[n % 10]>>

\* The review columns of the row a flattening export writes for a record
\* (storage.py:94-99, 152-156, 204-209): reviews_count is set to
\* len(reviews), top_review to the text of the first review when there is
\* one; `keep` is whether the reviews stay in the row (as JSON text).
FlatReviewColumns(item, keep) ==
    LET n == Numeral(Len(item.reviews))
        json == <<"json">> \o item.reviews
    IN IF item.reviews # <<>>
       THEN IF keep
            THEN [reviews_count |-> n, top_review |-> item.reviews[1], reviews |-> json]
            ELSE [reviews_count |-> n, top_review |-> item.reviews[1]]
       ELSE IF keep
            THEN [reviews_count |-> n, reviews |-> json]
            ELSE [reviews_count |-> n]

\* scraper.py:636-643: the rewriting of an image URL before the download.
UpgradeSrc(src) ==
    LET a == IF Contains(src, <<"S", "_height">>) \/ Contains(src, <<"X", "X", "S">>)
                 \/ Contains(src, <<"X", "S", "_height">>)
             THEN Replace(Replace(Replace(src, <<"S", "_height">>, <<"X", "L">>),
                                  <<"X", "X", "S", "_height">>, <<"X", "L">>),
                          <<"X", "S", "_height">>, <<"X", "L">>)
             ELSE src
        b == Replace(Replace(a, <<"M", "_height">>, <<"X", "L">>),
                     <<"L", "_height">>, <<"X", "L">>)
        c == Replace(Replace(Replace(b, <<"200x200">>, <<"orig">>),
                             <<"400x400">>, <<"orig">>), <<"600x600">>, <<"orig">>)
    IN Replace(c, <<"priority-headline-background">>, <<"X", "L">>)

Digits == {"4", "9"}

\* re.search(r'(\d+(?:\.\d+)?)', text).group(1), "" without a match
\* (scraper.py:552-558): the leftmost digit run, with a fraction when a dot
\* and a digit follow it.
DecimalKeepsDot(text) ==
    LET a == FirstIn(text, Digits, 1)
        b == RunEnd(text, Digits, a)
    IN IF a > Len(text) THEN <<>>
       ELSE IF b <= Len(text) /\ text[b] = "." THEN SubSeq(text, a, b)
       ELSE SubSeq(text, a, b - 1)
FirstDecimal(text) ==
    LET a == FirstIn(text, Digits, 1)
        b == RunEnd(text, Digits, a)
    IN IF a > Len(text) THEN <<>>
       ELSE IF b < Len(text) /\ text[b] = "." /\ text[b + 1] \in Digits
            THEN SubSeq(text, a, RunEnd(text, Digits, b + 1) - 1)
            ELSE SubSeq(text, a, b - 1)

\* re.search(r'(\d+)', text).group(1), "" without a match (scraper.py:570-576)
FirstInteger(text) ==
    LET a == FirstIn(text, Digits, 1) IN
    IF a > Len(text) THEN <<>> ELSE SubSeq(text, a, RunEnd(text, Digits, a) - 1)

\* _extract_rating / _extract_reviews_count on the label text that _get_text
\* returned ("" when no selector matched): `if rating_text:` then the search.
ExtractRating(rating_text) == IF rating_text # <<>> THEN FirstDecimal(rating_text) ELSE <<>>
ExtractReviewsCount(count_text) == IF count_text # <<>> THEN FirstInteger(count_text) ELSE <<>>

\* ------------------------------------- DetailSpec: _extract_details 343-465

\* Variables of run that the other specifications leave alone.
runRest == <<max_results, on_progress, driver, session_dir, place_links, total_links,
             i, page, extracted_data, place_data, discLocals, discHist, exVars, histVars,
             progressLog, folders, shotVars>>

\* The state of run while _extract_details executes for the first listing,
\* as far as these variables go: the browser is open, the session directory
\* exists, nothing has been extracted yet.
RunLocalsIdle ==
    /\ on_progress = FALSE
    /\ driver = "open" /\ session_dir = TRUE
    /\ place_links = <<>> /\ total_links = 0 /\ i = 0 /\ page = 0
    /\ extracted_data = <<>> /\ place_data = <<>>
    /\ links = {} /\ last_count = 0 /\ current_count = 0 /\ attempts = 0
    /\ el = 1 /\ sel = 1
    /\ st = 1 /\ fsel = 1 /\ val = FALSE /\ name = ""
    /\ exitPath = "none" /\ noGrowthRun = 0 /\ constRun = 0
    /\ viaFirst = {} /\ crossDup = FALSE
    /\ attempted = {} /\ status = <<>> /\ dropCause = "none" /\ exportLog = <<>>
    /\ fatal = "none" /\ interrupted = FALSE /\ searchResult = "none"
    /\ outcome = "RUNNING"
    /\ progressLog = <<>> /\ folders = {}

RunIdle ==
    /\ max_results = 1
    /\ RunLocalsIdle

\* The variables of ShotSpec while the screenshotter does not run.
ShotIdle ==
    /\ num_tasks = 0 /\ main_pc = "idle" /\ browser = "none"
    /\ semaphore = 0 /\ task_pc = <<>> /\ leaked = FALSE

\* _extract_photos returns: its locals (and the history kept about the
\* call) are gone.
PhotoFrameGone ==
    /\ imgs' = 0 /\ img_i' = 0 /\ downloaded_paths' = <<>>
    /\ accepted' = {} /\ rejected' = {} /\ loopAborted' = FALSE

\* The variables of DetailSpec outside a call of _extract_details.
DetailIdle ==
    /\ max_photos = 0 /\ current_url = <<>>
    /\ imgs = 0 /\ img_i = 0 /\ downloaded_paths = <<>>
    /\ accepted = {} /\ rejected = {} /\ loopAborted = FALSE
    /\ photos = <<>>
    /\ review_items = 0 /\ item_i = 0 /\ reviews = <<>>
    /\ data_dict = <<>>
    /\ capped = FALSE /\ galleryClicked = FALSE /\ galleryNavigated = FALSE
    /\ downloadTried = FALSE /\ tabSwitched = FALSE
    /\ navigatedBack = FALSE /\ fieldsRead = FALSE

\* The variables of TextSpec outside TextSpec.
TextIdle == fn = "none" /\ input = <<>> /\ output = <<>>

\* The URL of the detail page run has opened (scraper.py:158): a path, with
\* or without a trailing slash, with or without a query string.
DetailUrls == {<<"a">>, <<"a", "/">>, <<"a", "?", "a">>, <<"a", "/", "?", "a">>}

\* The URL the site itself shows once its gallery is open (after the click
\* of scraper.py:350): the gallery segment follows the path.
SiteGalleryUrl(url) ==
    IF Contains(url, <<"?">>)
    THEN LET q == FirstIn(url, {"?"}, 1) IN
         RStrip(SubSeq(url, 1, q - 1), "/") \o <<"/", "gallery", "/", "?">>
             \o SubSeq(url, q + 1, Len(url))
    ELSE RStrip(url, "/") \o <<"/", "gallery", "/">>

\* handle_errors around _extract_details (decorators.py:45-52): an exception
\* outside the method's own try blocks makes it return None.
DetailReturnNone ==
    /\ data_dict' = <<>>
    /\ pc' = "detail_none"

\* `if self.scrape_photos:` (scraper.py:344)
RunsPhotoPipelineAlways == TRUE
RunsPhotoPipeline == scrape_photos

\* `if self.scrape_reviews:` (scraper.py:460)
RunsReviewPipeline == scrape_reviews

\* scraper.py:343-344 with the pipeline disabled: photos = [] and on to the
\* text fields.
SkipPhotos ==
    /\ pc = "photo_block"
    /\ ~RunsPhotoPipeline
    /\ photos' = <<>>
    /\ pc' = "text_fields"
    /\ UNCHANGED <<confVars, runRest, textVars, max_photos, current_url, photoLocals,
                   reviewLocals, data_dict, photoHist, detailHist>>

\* scraper.py:343-353: look for the gallery button and click it; the click
\* may open the site's gallery URL. Every exception is swallowed.
OpenGallery ==
    /\ pc = "photo_block"
    /\ RunsPhotoPipeline
    /\ photos' = <<>>
    /\ \/ UNCHANGED <<galleryClicked, current_url>>
       \/ /\ galleryClicked' = TRUE
          /\ current_url' \in {current_url, SiteGalleryUrl(current_url)}
    /\ pc' = "find_media"
    /\ UNCHANGED <<confVars, runRest, textVars, max_photos, photoLocals, reviewLocals,
                   data_dict, photoHist, capped, galleryNavigated, downloadTried, tabSwitched,
                   navigatedBack, fieldsRead>>

\* scraper.py:356-370: without gallery images on the page and without the
\* marker in the current URL, the gallery URL is built and opened; a failing
\* driver.get is swallowed. find_elements and current_url are outside the
\* try block.
FindMedia ==
    /\ pc = "find_media"
    /\ \/ /\ DetailReturnNone
          /\ UNCHANGED <<current_url, galleryNavigated>>
       \/ /\ pc' = "extract_photos"
          /\ UNCHANGED <<current_url, galleryNavigated, data_dict>>
       \/ /\ pc' = "extract_photos"
          /\ IF ~Contains(current_url, GalleryMarker)
             THEN \/ /\ current_url' = GalleryUrl(current_url)
                     /\ galleryNavigated' = TRUE
                  \/ UNCHANGED <<current_url, galleryNavigated>>
             ELSE UNCHANGED <<current_url, galleryNavigated>>
          /\ UNCHANGED data_dict
    /\ UNCHANGED <<confVars, runRest, textVars, max_photos, photoLocals, photos,
                   reviewLocals, photoHist, capped, galleryClicked, downloadTried,
                   tabSwitched, navigatedBack, fieldsRead>>

\* scraper.py:593-608: cookies are copied and the image elements are found;
\* an exception here is caught by the outer handler (691-692).
ExtractPhotosStart ==
    /\ pc = "extract_photos"
    /\ \/ /\ pc' = "photos_return"
          /\ UNCHANGED <<imgs, capped>>
       \/ \E n \in 0..NumImgs :
            /\ imgs' = n
            /\ capped' = (n > max_photos)
            /\ pc' = "photo_loop"
    /\ img_i' = 0
    /\ downloaded_paths' = <<>>
    /\ UNCHANGED <<confVars, runRest, textVars, max_photos, current_url, photos,
                   reviewLocals, data_dict, photoHist, galleryClicked, galleryNavigated,
                   downloadTried, tabSwitched, navigatedBack, fieldsRead>>

\* len(imgs[:self.max_photos]) (scraper.py:610), max_photos >= 0
PhotoSliceNoLimit(n, limit) == n
PhotoSlice(n, limit) == Min(n, limit)

\* filename = f"photo_{i+1}.jpg" (scraper.py:646, 666, 675): the file number
\* of the image at enumerate index k.
PhotoNumber(k) == k + 1

\* `resp.status_code == 200 and len(resp.content) > 1000` (scraper.py:656)
ResponseAcceptedAnySize(status200, big) == status200
ResponseAccepted(status200, big) == status200 /\ big

\* What can happen to one image (scraper.py:611-690):
\*   attr_raises      get_attribute raises: the outer handler ends the loop
\*   nosrc, icon      `continue` at 625 / 631
\*   download_raises  session.get raises: handler at 688-690
\*   response         a response arrived
ImgOutcomes == {"attr_raises", "nosrc", "icon", "download_raises", "response"}

\* scraper.py:610-690: one pass of the image loop. With a response, status200
\* and big describe it and written tells whether the file was written (a
\* failed write, after a failed conversion or not, raises into 688-690).
PhotoLoop ==
    /\ pc = "photo_loop"
    /\ IF img_i < PhotoSlice(imgs, max_photos)
       THEN \E o \in ImgOutcomes, status200, big, written \in BOOLEAN :
            LET n == PhotoNumber(img_i) IN
            /\ (o # "response") => (status200 /\ big /\ written)
            /\ (~(status200 /\ big)) => written
            /\ downloadTried' = (downloadTried \/ o \in {"download_raises", "response"})
            /\ accepted' = IF o = "response" /\ status200 /\ big
                           THEN accepted \cup {n} ELSE accepted
            /\ rejected' = IF o = "download_raises"
                              \/ (o = "response" /\ ~(status200 /\ big))
                           THEN rejected \cup {n} ELSE rejected
            /\ downloaded_paths' =
                   IF o = "response" /\ ResponseAccepted(status200, big) /\ written
                   THEN Append(downloaded_paths, n) ELSE downloaded_paths
            /\ IF o = "attr_raises"
               THEN /\ loopAborted' = TRUE
                    /\ pc' = "photos_return"
                    /\ UNCHANGED img_i
               ELSE /\ img_i' = img_i + 1
                    /\ UNCHANGED <<loopAborted, pc>>
       ELSE /\ pc' = "photos_return"
            /\ UNCHANGED <<img_i, downloaded_paths, photoHist, downloadTried>>
    /\ UNCHANGED <<confVars, runRest, textVars, max_photos, current_url, imgs, photos,
                   reviewLocals, data_dict, capped, galleryClicked, galleryNavigated,
                   tabSwitched, navigatedBack, fieldsRead>>

\* `return downloaded_paths` and `photos = self._extract_photos(place_folder)`
\* (scraper.py:694, 373)
ExtractPhotosReturn ==
    /\ pc = "photos_return"
    /\ photos' = downloaded_paths
    /\ PhotoFrameGone
    /\ pc' = "back_to_overview"
    /\ UNCHANGED <<confVars, runRest, textVars, max_photos, current_url, reviewLocals,
                   data_dict, detailHist>>

\* scraper.py:376-384: with the marker in the current URL the main URL is
\* opened again; current_url, driver.get and execute_script are outside any
\* try block.
BackToOverview ==
    /\ pc = "back_to_overview"
    /\ \/ /\ DetailReturnNone
          /\ UNCHANGED <<current_url, navigatedBack>>
       \/ /\ IF Contains(current_url, GalleryMarker)
             THEN /\ current_url' = MainUrl(current_url)
                  /\ navigatedBack' = TRUE
             ELSE UNCHANGED <<current_url, navigatedBack>>
          /\ pc' = "text_fields"
          /\ UNCHANGED data_dict
    /\ UNCHANGED <<confVars, runRest, textVars, max_photos, photoLocals, photos,
                   reviewLocals, photoHist, capped, galleryClicked, galleryNavigated,
                   downloadTried, tabSwitched, fieldsRead>>

\* scraper.py:386-438: features, address, website, phone, working hours and
\* social links are read from the page the browser shows; _get_text and
\* _get_attribute may raise.
TextFields ==
    /\ pc = "text_fields"
    /\ \/ /\ fieldsRead' = TRUE
          /\ pc' = "build"
          /\ UNCHANGED data_dict
       \/ /\ DetailReturnNone
          /\ UNCHANGED fieldsRead
    /\ UNCHANGED <<confVars, runRest, textVars, max_photos, current_url, photoLocals,
                   photos, reviewLocals, photoHist, capped, galleryClicked,
                   galleryNavigated, downloadTried, tabSwitched, navigatedBack>>

\* Once the dict is built the photo block and the text fields lie behind:
\* the history kept about them is dropped.
PhotoBlockOver ==
    /\ galleryClicked' = FALSE /\ galleryNavigated' = FALSE
    /\ downloadTried' = FALSE /\ navigatedBack' = FALSE /\ fieldsRead' = FALSE

\* scraper.py:441-457: the dict `data`, of which photos is kept here; reading
\* rating, reviews_count or current_url may raise.
BuildData ==
    /\ pc = "build"
    /\ \/ /\ data_dict' = <<[photos |-> photos]>>
          /\ pc' = "reviews"
          /\ PhotoBlockOver
       \/ /\ DetailReturnNone
          /\ UNCHANGED <<galleryClicked, galleryNavigated, downloadTried,
                         navigatedBack, fieldsRead>>
    /\ UNCHANGED <<confVars, runRest, textVars, max_photos, current_url, photoLocals,
                   photos, reviewLocals, photoHist, capped, tabSwitched>>

\* scraper.py:462-465 with the pipeline disabled: data["reviews"] = []
SkipReviews ==
    /\ pc = "reviews"
    /\ ~RunsReviewPipeline
    /\ data_dict' = <<[photos |-> data_dict[1].photos, reviews |-> <<>>]>>
    /\ pc' = "detail_done"
    /\ UNCHANGED <<confVars, runRest, textVars, max_photos, current_url, photoLocals,
                   photos, reviewLocals, photoHist, detailHist>>

\* scraper.py:698-721: the reviews tab is looked for and clicked unless it
\* is selected already, then the review items are collected; an exception
\* is caught by the outer handler (771-772).
ExtractReviewsStart ==
    /\ pc = "reviews"
    /\ RunsReviewPipeline
    /\ reviews' = <<>>
    /\ item_i' = 0
    /\ tabSwitched' \in BOOLEAN
    /\ \/ /\ pc' = "reviews_return"
          /\ review_items' = 0
       \/ /\ review_items' \in 0..NumReviewItems
          /\ pc' = "review_loop"
    /\ UNCHANGED <<confVars, runRest, textVars, max_photos, current_url, photoLocals,
                   photos, data_dict, photoHist, capped, galleryClicked, galleryNavigated,
                   downloadTried, navigatedBack, fieldsRead>>

\* What an item's rating, author and body lookups can give: "" or a text.
FieldTexts == {"", "x"}

\* `if (r["text"] or r["author"]) and r["rating"]:` (scraper.py:766)
KeepReviewAnyContent(r) == r.text # "" \/ r.author # "" \/ r.rating # ""
KeepReview(r) == (r.text # "" \/ r.author # "") /\ r.rating # ""

\* scraper.py:723-770: one pass of the loop over review_items[:5]. Every
\* lookup inside swallows its exceptions (bare except), so an item yields
\* three texts, each possibly empty. The date is not kept here.
ReviewLoop ==
    /\ pc = "review_loop"
    /\ IF item_i < Min(review_items, ReviewLimit)
       THEN \E a, t, g \in FieldTexts :
            LET r == [author |-> a, text |-> t, rating |-> g] IN
            /\ reviews' = IF KeepReview(r) THEN Append(reviews, r) ELSE reviews
            /\ item_i' = item_i + 1
            /\ UNCHANGED pc
       ELSE /\ pc' = "reviews_return"
            /\ UNCHANGED <<reviews, item_i>>
    /\ UNCHANGED <<confVars, runRest, textVars, max_photos, current_url, photoLocals,
                   photos, review_items, data_dict, photoHist, detailHist>>

\* `return reviews`, `data["reviews"] = self._extract_reviews()` and
\* `return data` (scraper.py:774, 461, 465)
ExtractReviewsReturn ==
    /\ pc = "reviews_return"
    /\ data_dict' = <<[photos |-> data_dict[1].photos, reviews |-> reviews]>>
    /\ pc' = "detail_done"
    /\ UNCHANGED <<confVars, runRest, textVars, max_photos, current_url, photoLocals,
                   photos, reviewLocals, photoHist, detailHist>>

\* ------------------------------------------------------- specification

Init ==
    /\ max_results \in 1..MaxResults
    /\ on_progress \in BOOLEAN
    /\ scrape_photos \in BOOLEAN
    /\ scrape_reviews \in BOOLEAN
    /\ pc = "setup_driver"
    /\ driver = "None"
    /\ session_dir = FALSE
    /\ place_links = <<>>
    /\ total_links = 0
    /\ i = 0
    /\ page = 0
    /\ extracted_data = <<>>
    /\ place_data = <<>>
    /\ links = {}
    /\ last_count = 0
    /\ current_count = 0
    /\ attempts = 0
    /\ el = 1
    /\ sel = 1
    /\ st = 1
    /\ fsel = 1
    /\ val = FALSE
    /\ name = ""
    /\ exitPath = "none"
    /\ noGrowthRun = 0
    /\ constRun = 0
    /\ viaFirst = {}
    /\ crossDup = FALSE
    /\ attempted = {}
    /\ status = <<>>
    /\ dropCause = "none"
    /\ exportLog = <<>>
    /\ fatal = "none"
    /\ interrupted = FALSE
    /\ searchResult = "none"
    /\ outcome = "RUNNING"
    /\ progressLog = <<>>
    /\ folders = {}
    /\ DetailIdle
    /\ TextIdle
    /\ ShotIdle

Next ==
    \/ SetupDriver
    \/ SetupSessionDirectory
    \/ OpenMaps
    \/ PerformSearch
    \/ ProgressStart
    \/ ScrollFind
    \/ CollectLink
    \/ EndIteration
    \/ AfterDiscovery
    \/ LoopHead
    \/ ProgressListing
    \/ Navigate
    \/ ExtractStep
    \/ AfterExtract
    \/ ProgressFinal
    \/ StampQuery
    \/ Export
    \/ Interrupt
    \/ Finally

Spec == Init /\ [][Next]_vars

DetailInit ==
    /\ RunIdle
    /\ TextIdle
    /\ ShotIdle
    /\ scrape_photos \in BOOLEAN
    /\ scrape_reviews \in BOOLEAN
    /\ pc = "photo_block"
    /\ max_photos \in 0..MaxPhotos
    /\ current_url \in DetailUrls
    /\ imgs = 0 /\ img_i = 0 /\ downloaded_paths = <<>>
    /\ accepted = {} /\ rejected = {} /\ loopAborted = FALSE
    /\ photos = <<>>
    /\ review_items = 0 /\ item_i = 0 /\ reviews = <<>>
    /\ data_dict = <<>>
    /\ capped = FALSE /\ galleryClicked = FALSE /\ galleryNavigated = FALSE
    /\ downloadTried = FALSE /\ tabSwitched = FALSE
    /\ navigatedBack = FALSE /\ fieldsRead = FALSE

DetailNext ==
    \/ SkipPhotos
    \/ OpenGallery
    \/ FindMedia
    \/ ExtractPhotosStart
    \/ PhotoLoop
    \/ ExtractPhotosReturn
    \/ BackToOverview
    \/ TextFields
    \/ BuildData
    \/ SkipReviews
    \/ ExtractReviewsStart
    \/ ReviewLoop
    \/ ExtractReviewsReturn

DetailSpec == DetailInit /\ [][DetailNext]_vars

\* ------------------------------------------ TextSpec: the string functions

UrlTokens == {"a", "/", "?", "gallery"}
SrcTokens == {"a", "X", "S", "M", "L", "_height", "200x200", "400x400", "600x600",
              "priority-headline-background"}
LabelTokens == Digits \cup {".", "R"}
LinkTokens == {"a", "/", "gallery", "tab=", "&"}
CountDigits == {"0", "1", "4"}

\* The flattening exports (storage.py:61, 119, 174).
FlatExports == {"export_to_csv", "export_to_excel", "save_to_sqlite"}

\* The records handed to the exports, as far as reviews go: reviews_count
\* is the digit text read from the page (scraper.py:451), reviews the list
\* of at most 5 reviews (scraper.py:459-463).
ExportItems ==
    {[reviews_count |-> c, reviews |-> [k \in 1..n |-> "review"]] :
        c \in StringsOver(CountDigits, MaxCountLen) \ {<<>>}, n \in 0..ReviewLimit}

TextInit ==
    /\ RunIdle
    /\ DetailIdle
    /\ ShotIdle
    /\ scrape_photos = TRUE
    /\ scrape_reviews = TRUE
    /\ pc = "text_input"
    /\ output = <<>>
    /\ \/ fn = "gallery_url" /\ input \in StringsOver(UrlTokens, MaxUrlLen)
       \/ fn = "upgrade_src" /\ input \in StringsOver(SrcTokens, MaxSrcLen)
       \/ fn \in {"rating", "reviews_count"} /\ input \in StringsOver(LabelTokens, MaxLabelLen)
       \/ fn = "normalize" /\ input \in StringsOver(LinkTokens, MaxLinkLen)
       \/ fn \in FlatExports /\ input \in ExportItems

\* A function's result is stored.
Apply(result) ==
    /\ pc = "text_input"
    /\ output' = result
    /\ pc' = "text_output"
    /\ UNCHANGED <<confVars, runRest, detailVars, fn, input>>

\* scraper.py:357-364, current_url = input
BuildGalleryUrl ==
    /\ fn = "gallery_url"
    /\ ~Contains(input, GalleryMarker)
    /\ Apply(GalleryUrl(input))

\* scraper.py:636-643, src = input
UpgradeImageUrl ==
    /\ fn = "upgrade_src"
    /\ Apply(UpgradeSrc(input))

\* scraper.py:546-558, the label text = input
ReadRating ==
    /\ fn = "rating"
    /\ Apply(ExtractRating(input))

\* scraper.py:560-576, the label text = input
ReadReviewsCount ==
    /\ fn = "reviews_count"
    /\ Apply(ExtractReviewsCount(input))

\* scraper.py:151-156, link = input
NormalizeLink ==
    /\ fn = "normalize"
    /\ Apply(NormalizeUrl(input))

\* storage.py:75-109, item = input (`del flat_item['reviews']`, line 99)
ExportToCsv ==
    /\ fn = "export_to_csv"
    /\ Apply(FlatReviewColumns(input, FALSE))

\* storage.py:137-164, item = input (`del flat_item['reviews']`, line 156)
ExportToExcel ==
    /\ fn = "export_to_excel"
    /\ Apply(FlatReviewColumns(input, FALSE))

\* storage.py:187-217, item = input (reviews kept as JSON text, line 209)
SaveToSqlite ==
    /\ fn = "save_to_sqlite"
    /\ Apply(FlatReviewColumns(input, TRUE))

TextNext ==
    \/ BuildGalleryUrl
    \/ UpgradeImageUrl
    \/ ReadRating
    \/ ReadReviewsCount
    \/ NormalizeLink
    \/ ExportToCsv
    \/ ExportToExcel
    \/ SaveToSqlite

TextSpec == TextInit /\ [][TextNext]_vars

\* ------------------------- DiscoverySpec: _scroll_and_collect_results alone

\* The call at scraper.py:136, for every max_results: `while True`
\* (scraper.py:221) starts with empty links and both counters at 0.
DiscoveryInit ==
    /\ max_results \in 1..MaxResults
    /\ RunLocalsIdle
    /\ DetailIdle
    /\ TextIdle
    /\ ShotIdle
    /\ scrape_photos = TRUE
    /\ scrape_reviews = TRUE
    /\ pc = "scroll_find"

DiscoveryNext ==
    \/ ScrollFind
    \/ CollectLink
    \/ EndIteration

\* The method runs on the only thread of the scraper and every statement of
\* the loop body returns or raises (the waits are time.sleep calls): a step
\* that can be taken is taken.
DiscoverySpec == DiscoveryInit /\ [][DiscoveryNext]_vars /\ WF_vars(DiscoveryNext)

\* ------------------------------------- ShotSpec: the website screenshotter

\* process_websites and the coroutines it hands to asyncio.gather run on one
\* event loop: control changes hands only at an await, so each action is the
\* code between two awaits of one coroutine.

\* The positions of a task that holds the semaphore
\* (screenshotter.py:59-106).
InsideBody == {"new_context_desktop", "new_context_mobile", "capture",
               "close_desktop", "close_mobile"}
Inside(t) == task_pc[t] \in InsideBody

\* A task that has left _process_single_website, by return or by exception.
Finished(t) == task_pc[t] \in {"done", "failed"}

\* asyncio.Semaphore.acquire inside `async with semaphore` (line 59): a
\* permit is taken only when one is free.
CanAcquireAlways(value) == TRUE
CanAcquire(value) == value > 0

\* `async with semaphore` is left, by return or by exception: the permit is
\* given back.
Release == semaphore' = semaphore + 1

\* An exception leaves _process_single_website.
TaskRaises(t) ==
    /\ task_pc' = [task_pc EXCEPT ![t] = "failed"]
    /\ Release

\* screenshotter.py:28-50: the rows with a website become the task list;
\* lines 31-33: the browser is launched and the semaphore made. Launching
\* may raise; with no task, gather is skipped (lines 51-54).
LaunchBrowser ==
    /\ main_pc = "launch"
    /\ \/ /\ browser' = "open"
          /\ semaphore' = SemaphoreValue
          /\ main_pc' = IF num_tasks > 0 THEN "gather" ELSE "close"
       \/ /\ main_pc' = "raised"
          /\ UNCHANGED <<browser, semaphore>>
    /\ UNCHANGED <<scraperVars, num_tasks, task_pc, leaked>>

\* screenshotter.py:59-67: the task takes a permit (the waiters are served
\* in the order gather started them) and, without another await, makes the
\* target folder and writes info.txt, either of which may raise.
Acquire ==
    \E t \in 1..num_tasks :
        /\ main_pc = "gather"
        /\ task_pc[t] = "queued"
        /\ \A u \in 1..(t - 1) : task_pc[u] # "queued"
        /\ CanAcquire(semaphore)
        /\ \/ /\ task_pc' = [task_pc EXCEPT ![t] = "new_context_desktop"]
              /\ semaphore' = semaphore - 1
           \/ /\ task_pc' = [task_pc EXCEPT ![t] = "failed"]
              /\ UNCHANGED semaphore
        /\ UNCHANGED <<scraperVars, num_tasks, main_pc, browser, leaked>>

\* screenshotter.py:69: outside the try block.
NewContextDesktop ==
    \E t \in 1..num_tasks :
        /\ main_pc = "gather"
        /\ task_pc[t] = "new_context_desktop"
        /\ \/ /\ task_pc' = [task_pc EXCEPT ![t] = "new_context_mobile"]
              /\ UNCHANGED semaphore
           \/ TaskRaises(t)
        /\ UNCHANGED <<scraperVars, num_tasks, main_pc, browser, leaked>>

\* screenshotter.py:70-74: outside the try block; when it raises, the
\* desktop context stays open.
NewContextMobile ==
    \E t \in 1..num_tasks :
        /\ main_pc = "gather"
        /\ task_pc[t] = "new_context_mobile"
        /\ \/ /\ task_pc' = [task_pc EXCEPT ![t] = "capture"]
              /\ UNCHANGED <<semaphore, leaked>>
           \/ /\ TaskRaises(t)
              /\ leaked' = TRUE
        /\ UNCHANGED <<scraperVars, num_tasks, main_pc, browser>>

\* screenshotter.py:76-103: the try body; _capture_page swallows its
\* exceptions (108-119) and `except Exception` catches the rest, so control
\* reaches the finally block either way.
Capture ==
    \E t \in 1..num_tasks :
        /\ main_pc = "gather"
        /\ task_pc[t] = "capture"
        /\ task_pc' = [task_pc EXCEPT ![t] = "close_desktop"]
        /\ UNCHANGED <<scraperVars, num_tasks, main_pc, browser, semaphore, leaked>>

\* screenshotter.py:105: when it raises, line 106 is skipped and the mobile
\* context stays open.
CloseDesktop ==
    \E t \in 1..num_tasks :
        /\ main_pc = "gather"
        /\ task_pc[t] = "close_desktop"
        /\ \/ /\ task_pc' = [task_pc EXCEPT ![t] = "close_mobile"]
              /\ UNCHANGED <<semaphore, leaked>>
           \/ /\ TaskRaises(t)
              /\ leaked' = TRUE
        /\ UNCHANGED <<scraperVars, num_tasks, main_pc, browser>>

\* screenshotter.py:106, then the end of `async with semaphore`.
CloseMobile ==
    \E t \in 1..num_tasks :
        /\ main_pc = "gather"
        /\ task_pc[t] = "close_mobile"
        /\ \/ /\ task_pc' = [task_pc EXCEPT ![t] = "done"]
              /\ Release
           \/ TaskRaises(t)
        /\ UNCHANGED <<scraperVars, num_tasks, main_pc, browser, leaked>>

\* `await asyncio.gather(*tasks)` (line 52) returns once every task has.
GatherReturns ==
    /\ main_pc = "gather"
    /\ \A t \in 1..num_tasks : task_pc[t] = "done"
    /\ main_pc' = "close"
    /\ UNCHANGED <<scraperVars, num_tasks, browser, semaphore, task_pc, leaked>>

\* gather is called without return_exceptions: the first exception of a
\* task is raised in process_websites, leaves `async with
\* async_playwright()` (which stops Playwright and with it the browser) and
\* ends asyncio.run, which cancels the tasks still pending (a cancelled task
\* leaves `async with semaphore`).
GatherRaises ==
    /\ main_pc = "gather"
    /\ \E t \in 1..num_tasks : task_pc[t] = "failed"
    /\ browser' = "closed"
    /\ main_pc' = "raised"
    /\ task_pc' = [t \in 1..num_tasks |-> IF Finished(t) THEN task_pc[t] ELSE "cancelled"]
    /\ semaphore' = semaphore + Cardinality({t \in 1..num_tasks : Inside(t)})
    /\ UNCHANGED <<scraperVars, num_tasks, leaked>>

\* screenshotter.py:56
CloseBrowser ==
    /\ main_pc = "close"
    /\ browser' = "closed"
    /\ main_pc' \in {"returned", "raised"}
    /\ UNCHANGED <<scraperVars, num_tasks, semaphore, task_pc, leaked>>

\* asyncio.run(screenshotter.process_websites()) (line 166) for a CSV file
\* with num_tasks usable rows.
ShotInit ==
    /\ RunIdle
    /\ DetailIdle
    /\ TextIdle
    /\ scrape_photos = TRUE
    /\ scrape_reviews = TRUE
    /\ pc = "process_websites"
    /\ num_tasks \in 0..NumSites
    /\ main_pc = "launch"
    /\ browser = "none"
    /\ semaphore = 0
    /\ task_pc = [t \in 1..num_tasks |-> "queued"]
    /\ leaked = FALSE

ShotNext ==
    \/ LaunchBrowser
    \/ Acquire
    \/ NewContextDesktop
    \/ NewContextMobile
    \/ Capture
    \/ CloseDesktop
    \/ CloseMobile
    \/ GatherReturns
    \/ GatherRaises
    \/ CloseBrowser

ShotSpec == ShotInit /\ [][ShotNext]_vars

\* ------------------------------------------------------------ properties

Distinct(seq) == \A a, b \in 1..Len(seq) : a # b => seq[a] # seq[b]

\* C1: for every max_results = N > 0, _scroll_and_collect_results returns a
\* duplicate-free list of exactly min(N, number of distinct hrefs collected)
\* links, each an href that a snippet's link element carried; never more
\* than N, and an href reached through two selectors or two snippets
\* appears once.
C1_ReturnsUniqueCapped ==
    pc = "returned" =>
        /\ Len(place_links) = Min(max_results, Cardinality(links))
        /\ Len(place_links) <= max_results
        /\ Distinct(place_links)
        /\ \A k \in 1..Len(place_links) : place_links[k] \in links \cap Hrefs

\* C1 witness: a return after an href was collected through the first
\* selector on one snippet and through another selector on a later one.
C1_Witness ==
    /\ pc = "returned"
    /\ crossDup
    /\ place_links # <<>>

\* C2 (as claimed): whenever fewer than max_results links are returned, the
\* 5 loop iterations before the return were all no-growth iterations.
C2_FewerOnlyAfterStall ==
    (pc = "returned" /\ Len(place_links) < max_results) => noGrowthRun >= max_attempts

\* C2 (amended): whenever fewer than max_results links are returned, either
\* the 5 loop iterations before the return were all no-growth iterations,
\* or the loop was left because scrolling the last snippet into view raised.
C2_FewerOnlyAfterStallOrScrollError ==
    (pc = "returned" /\ Len(place_links) < max_results) =>
        \/ exitPath = "stall" /\ noGrowthRun >= max_attempts
        \/ exitPath = "scroll_error"

\* C2 witness: a return of at least one but fewer than max_results links
\* through the stall cutoff.
C2_Witness ==
    /\ pc = "returned"
    /\ exitPath = "stall"
    /\ place_links # <<>>
    /\ Len(place_links) < max_results

Dropped == {k \in 1..Len(status) : status[k] # "record"}
AllExportsInvoked ==
    /\ Len(exportLog) = Len(ExportOps)
    /\ \A k \in 1..Len(ExportOps) : exportLog[k].op = ExportOps[k]

\* C3: an exception raised while processing listing i (navigation failure,
\* details-panel timeout, extraction error) never aborts the batch: once run
\* has left its try block for any reason other than an interrupt or a
\* raising progress callback, every listing was attempted and finished and
\* the four exports were invoked.
C3_ListingIsolation ==
    (pc \in {"finally", "done"} /\ Dropped # {} /\ ~interrupted /\ fatal # "callback") =>
        /\ attempted = 1..total_links
        /\ Len(status) = total_links
        /\ AllExportsInvoked

\* C3 witness: the first listing failed, the second produced a record, and
\* the exports ran.
C3_Witness ==
    /\ pc = "done"
    /\ Len(status) >= 2
    /\ status[1] = "error"
    /\ status[2] = "record"
    /\ AllExportsInvoked

\* C4: when run has returned or propagated, an acquired browser session has
\* been quit, on every exit path.
C4_BrowserReleased ==
    pc = "done" => driver # "open"

\* C4 witness: run ended by an interrupt during the listing loop, with the
\* browser quit.
C4_Witness ==
    /\ pc = "done"
    /\ interrupted
    /\ attempted # {}
    /\ driver = "quit"

\* C5 (as claimed): a failure while reading one field through _get_text or
\* _get_attribute never makes _extract_details return None.
C5_FieldFailureKeepsRecord ==
    (pc = "extracted" /\ dropCause = "field") => place_data # <<>>

\* C6: if driver initialisation fails or the search times out, no listing
\* is navigated to or extracted, no export is invoked, and the run ends
\* FAILED.
C6_FatalAborts ==
    (fatal = "setup_driver" \/ searchResult \in {"input_timeout", "results_timeout"}) =>
        /\ pc \in {"finally", "done"}
        /\ attempted = {}
        /\ page = 0
        /\ extracted_data = <<>>
        /\ exportLog = <<>>
        /\ (pc = "done" => outcome = "FAILED")

\* C6 witness: the results container timed out and run ended FAILED with
\* the browser quit.
C6_Witness ==
    /\ pc = "done"
    /\ searchResult = "results_timeout"
    /\ outcome = "FAILED"
    /\ driver = "quit"

\* C7: a listing whose details panel times out (or whose extraction fails)
\* contributes no entry; each attempted listing contributes at most one
\* record, and the aggregate holds one record per finished listing that
\* was not dropped.
C7_DroppedListingsLeaveNoEntry ==
    /\ \A k \in Dropped : \A r \in 1..Len(extracted_data) : extracted_data[r].id # k
    /\ \A a, b \in 1..Len(extracted_data) :
           extracted_data[a].id = extracted_data[b].id => a = b
    /\ Len(extracted_data) = Len(status) - Cardinality(Dropped)
    /\ (pc \in {"progress_final", "stamp"} =>
           Len(extracted_data) = Cardinality(attempted) - Cardinality(Dropped))

\* C7 witness: the loop has ended, one listing timed out and another one
\* produced a record.
C7_Witness ==
    /\ pc = "progress_final"
    /\ \E k \in 1..Len(status) : status[k] = "timeout"
    /\ \E k \in 1..Len(status) : status[k] = "record"

\* C8: every aggregated record's id is the 1-based position of its link in
\* the discovered list: ids lie in 1..total_links, increase strictly in
\* list order and keep their gaps.
C8_IdsArePositions ==
    \A k \in 1..Len(extracted_data) :
        /\ extracted_data[k].id \in 1..total_links
        /\ place_links[extracted_data[k].id] = extracted_data[k].link
        /\ (k > 1 => extracted_data[k - 1].id < extracted_data[k].id)
        /\ status[extracted_data[k].id] = "record"

\* C8 witness: the run completed with the first listing dropped and the
\* second listing's record carrying id 2.
C8_Witness ==
    /\ pc = "done"
    /\ outcome = "DONE"
    /\ Len(extracted_data) = 1
    /\ extracted_data[1].id = 2

C10_ExportIsolation ==
    /\ fatal # "export"
    /\ \A k \in 1..Len(exportLog) : exportLog[k].failed => exportLog[k].ret = ""
    /\ (pc \in {"finally", "done"} /\ exportLog # <<>> /\ ~interrupted) =>
           /\ AllExportsInvoked
           /\ \A k \in 1..Len(exportLog) : exportLog[k].data = exportLog[1].data

\* C10 witness: save_json failed and the last export still wrote its file.
C10_Witness ==
    /\ pc = "done"
    /\ AllExportsInvoked
    /\ exportLog[1].failed
    /\ exportLog[4].ret = "path"

\* C11: the photos list of a record never holds more than max_photos paths,
\* however many image elements the gallery exposes; the same holds for the
\* list while _extract_photos builds it.
C11_PhotosCapped ==
    /\ Len(downloaded_paths) <= max_photos
    /\ Len(photos) <= max_photos
    /\ pc = "detail_done" => Len(data_dict[1].photos) <= max_photos

\* C11 witness: the gallery exposed more images than max_photos and the
\* record holds exactly max_photos paths.
C11_Witness ==
    /\ pc = "detail_done"
    /\ capped
    /\ max_photos > 0
    /\ Len(data_dict[1].photos) = max_photos

\* C12: a path enters the photos list only for a download answered with
\* status 200 and more than 1000 bytes; a rejected response or a download
\* exception adds no path and the loop goes on to the remaining images (only
\* an exception outside the download handler ends it early).
C12_OnlyAcceptedDownloads ==
    /\ \A k \in 1..Len(downloaded_paths) :
           downloaded_paths[k] \in accepted /\ downloaded_paths[k] \notin rejected
    /\ (pc = "photos_return" /\ ~loopAborted /\ imgs > 0) =>
           img_i = PhotoSlice(imgs, max_photos)

\* C12 witness: _extract_photos returns a list holding the path of an image
\* that came after a rejected one.
C12_Witness ==
    /\ pc = "photos_return"
    /\ \E r \in rejected : \E k \in 1..Len(downloaded_paths) : r < downloaded_paths[k]

\* The predicate a kept review satisfies.
ReviewOk(r) == r.rating # "" /\ (r.text # "" \/ r.author # "")

\* C13: the reviews list never holds more than 5 reviews, every review in it
\* has a rating and a text or an author, in the list being built as in the
\* record; an item failing the predicate is dropped and the pass goes on
\* through all of the first 5 items.
C13_ReviewsCappedAndValid ==
    /\ Len(reviews) <= ReviewLimit
    /\ \A k \in 1..Len(reviews) : ReviewOk(reviews[k])
    /\ Len(reviews) <= item_i
    /\ pc = "reviews_return" => item_i = Min(review_items, ReviewLimit)
    /\ pc = "detail_done" =>
           /\ Len(data_dict[1].reviews) <= ReviewLimit
           /\ \A k \in 1..Len(data_dict[1].reviews) : ReviewOk(data_dict[1].reviews[k])

\* C13 witness: the page rendered more than 5 items, one of the first 5 was
\* dropped and the record holds the 4 others.
C13_Witness ==
    /\ pc = "detail_done"
    /\ review_items > ReviewLimit
    /\ item_i = ReviewLimit
    /\ Len(data_dict[1].reviews) = ReviewLimit - 1

\* C14: every record produced has a non-empty name (the extracted name or
\* the placeholder "Place_{index}").
C14_RecordNameNonEmpty ==
    /\ place_data # <<>> => place_data[1].name # ""
    /\ \A k \in 1..Len(extracted_data) : extracted_data[k].name # ""

\* C15: with scrape_photos off the pass clicks no gallery button, opens no
\* gallery URL, downloads nothing and the record's photos is empty; with
\* scrape_reviews off no reviews tab is switched to and the record's reviews
\* is empty.
C15_DisabledPipelinesIdle ==
    /\ ~scrape_photos =>
           /\ ~galleryClicked /\ ~galleryNavigated /\ ~downloadTried
           /\ current_url \in DetailUrls
           /\ photos = <<>>
           /\ data_dict # <<>> => data_dict[1].photos = <<>>
    /\ ~scrape_reviews =>
           /\ ~tabSwitched
           /\ reviews = <<>>
           /\ pc = "detail_done" => data_dict[1].reviews = <<>>

\* C15 witness: a record was returned with both pipelines off.
C15_Witness ==
    /\ pc = "detail_done"
    /\ ~scrape_photos /\ ~scrape_reviews
    /\ data_dict = <<[photos |-> <<>>, reviews |-> <<>>]>>

\* C16: when the photo pipeline opened the gallery URL it built, the browser
\* is sent back to the detail URL before the text fields are read.
C16_OverviewRestored ==
    (fieldsRead /\ galleryNavigated) =>
        /\ navigatedBack
        /\ ~Contains(current_url, <<"gallery">>)

\* The part of a URL before its first "?" and the part after it.
PathOf(url) == SubSeq(url, 1, FirstIn(url, {"?"}, 1) - 1)
QueryOf(url) == SubSeq(url, FirstIn(url, {"?"}, 1) + 1, Len(url))

\* s ends with t.
EndsWith(s, t) == Len(s) >= Len(t) /\ SubSeq(s, Len(s) - Len(t) + 1, Len(s)) = t

\* C17: for a current URL without "/gallery/", the gallery URL built from it
\* has the segment "/gallery/" right before the query string (at the end
\* when there is none), and the query string is the one of the current URL.
C17_GalleryUrlHasSegment ==
    (pc = "text_output" /\ fn = "gallery_url") =>
        /\ Contains(input, <<"?">>) <=> Contains(output, <<"?">>)
        /\ EndsWith(PathOf(output), GalleryMarker)
        /\ QueryOf(output) = QueryOf(input)

\* The small-thumbnail markers and the tokens the code rewrites.
SmallMarkers == {<<"S", "_height">>, <<"X", "S", "_height">>, <<"X", "X", "S", "_height">>}
LowResTokens == SmallMarkers \cup {<<"M", "_height">>, <<"L", "_height">>, <<"200x200">>,
                                   <<"400x400">>, <<"600x600">>,
                                   <<"priority-headline-background">>}

\* s is made of tokens that belong to no marker.
Plain(s) == \A k \in 1..Len(s) : s[k] = "a"

\* C18: a small-thumbnail marker (S_height, XS_height, XXS_height) in an
\* image URL is rewritten to XL before the download, and a URL with none of
\* the low-resolution tokens is downloaded as it is.
C18_MarkersUpgraded ==
    (pc = "text_output" /\ fn = "upgrade_src") =>
        /\ \A m \in SmallMarkers : \A p \in 0..Len(input) :
               LET pre == SubSeq(input, 1, p)
                   post == SubSeq(input, p + Len(m) + 1, Len(input))
               IN (input = pre \o m \o post /\ Plain(pre) /\ Plain(post)) =>
                      output = pre \o <<"X", "L">> \o post
        /\ (\A t \in LowResTokens : ~Contains(input, t)) => output = input

\* Strings of digits, and strings of digits with an optional fraction.
IsInteger(s) == s # <<>> /\ \A k \in 1..Len(s) : s[k] \in Digits
IsDecimal(s) ==
    \/ IsInteger(s)
    \/ \E d \in 2..(Len(s) - 1) :
          s[d] = "." /\ IsInteger(SubSeq(s, 1, d - 1)) /\ IsInteger(SubSeq(s, d + 1, Len(s)))

\* out is the first (leftmost, longest) substring of text of the given form,
\* or "" when text holds no digit.
FirstOfForm(text, out, Form(_)) ==
    LET a == FirstIn(text, Digits, 1) IN
    IF a > Len(text) THEN out = <<>>
    ELSE /\ Form(out)
         /\ SubSeq(text, a, a + Len(out) - 1) = out
         /\ \A n \in (Len(out) + 1)..(Len(text) - a + 1) : ~Form(SubSeq(text, a, a + n - 1))

\* C19: the rating is the first decimal substring of the label and the
\* review count its first integer substring; extracting again from the
\* result gives the result, a clean number is returned unchanged, and a label
\* without digits (the empty one included) gives "".
C19_NumberExtraction ==
    /\ (pc = "text_output" /\ fn = "rating") =>
           /\ FirstOfForm(input, output, IsDecimal)
           /\ ExtractRating(output) = output
           /\ IsDecimal(input) => output = input
    /\ (pc = "text_output" /\ fn = "reviews_count") =>
           /\ FirstOfForm(input, output, IsInteger)
           /\ ExtractReviewsCount(output) = output
           /\ IsInteger(input) => output = input

\* C19 witness: the rating "4.9" was extracted from a label with text
\* before it.
C19_Witness ==
    /\ pc = "text_output"
    /\ fn = "rating"
    /\ input = <<"R", "4", ".", "9">>
    /\ output = <<"4", ".", "9">>

\* C20: the k photos saved for a listing carry the file numbers 1..k.
C20_SequentialNumbers ==
    /\ \A k \in 1..Len(downloaded_paths) : downloaded_paths[k] = k
    /\ \A k \in 1..Len(photos) : photos[k] = k

\* C23: with a callback installed, it is called once before each attempted
\* listing; every call has 0 <= completed <= total; completed never
\* decreases from one call to the next; and the last call before the exports
\* has completed = total. Without a callback nothing is called.
C23_ProgressArguments ==
    /\ ~on_progress => progressLog = <<>>
    /\ \A k \in 1..Len(progressLog) :
          /\ 0 <= progressLog[k][1]
          /\ progressLog[k][1] <= progressLog[k][2]
    /\ \A k \in 1..(Len(progressLog) - 1) : progressLog[k][1] <= progressLog[k + 1][1]
    /\ (on_progress /\ pc \in {"navigate", "extract", "extracted"}) =>
          /\ Len(progressLog) = 1 + Cardinality(attempted)
          /\ progressLog[Len(progressLog)] = <<i, total_links>>
    /\ (on_progress /\ exportLog # <<>>) =>
          /\ Len(progressLog) = 2 + Cardinality(attempted)
          /\ progressLog[Len(progressLog)] = <<total_links, total_links>>

C23_Witness ==
    /\ pc = "done"
    /\ on_progress
    /\ total_links >= 2
    /\ Len(progressLog) = total_links + 2
    /\ AllExportsInvoked

\* C24: the stall counter counts the latest consecutive iterations in which
\* the snippet count did not grow (shrinking included): it equals the
\* no-growth run length, capped at the threshold at which the loop stops.
C24_CounterCountsNoGrowth ==
    attempts = noGrowthRun

\* C25: while the loop runs, fewer than max_attempts consecutive iterations
\* have left the snippet count unchanged (the 5th such iteration returns)
\* and fewer than max_results links are held at the top of an iteration; the
\* loop either is left or sees the count change again and again.
C25_InLoop == pc \in {"scroll_find", "collect"}
C25_StallCutoff ==
    /\ [](C25_InLoop => (constRun < max_attempts /\ attempts = constRun))
    /\ []((pc = "scroll_find") => Cardinality(links) < max_results)
    /\ []((pc = "returned" /\ exitPath = "stall") => constRun = max_attempts)
    /\ []<>(~C25_InLoop \/ constRun = 0)

C25_Witness ==
    /\ pc = "returned"
    /\ exitPath = "stall"
    /\ constRun = max_attempts
    /\ Cardinality(links) < max_results

\* C27: a progress callback that raises inside the listing loop is treated
\* like a failed listing: every discovered listing is still attempted and
\* all exports are invoked.
C27_CallbackFailureIsolated ==
    (pc = "done" /\ fatal = "callback" /\ attempted # {}
        /\ progressLog[Len(progressLog)][1] < total_links) =>
        /\ attempted = 1..total_links
        /\ AllExportsInvoked

\* C29: at the end of a run every listing folder made by
\* create_place_folder belongs to a listing with a record in the aggregate.
C29_NoOrphanFolders ==
    pc = "done" => folders \subseteq {extracted_data[k].id : k \in 1..Len(extracted_data)}

\* C26: the URL run opens for a discovered link contains neither "/gallery/"
\* nor "tab=gallery", and normalising it again leaves it unchanged.
C26_NormalizedHasNoMarker ==
    (pc = "text_output" /\ fn = "normalize") =>
        /\ ~Contains(output, GalleryMarker)
        /\ ~Contains(output, TabGalleryMarker)
        /\ NormalizeUrl(output) = output

\* C28: the reviews_count column each flattening export writes for a record
\* equals the record's reviews_count field, whatever the number of reviews
\* in its reviews list.
C28_ReviewsCountPreserved ==
    (pc = "text_output" /\ fn \in FlatExports) =>
        output.reviews_count = input.reviews_count

\* C21: at every moment at most 5 tasks are inside the body of
\* _process_single_website, and the free permits are 5 minus their number.
C21_AtMostFiveInside ==
    main_pc \in {"gather", "close", "returned", "raised"} /\ browser # "none" =>
        /\ Cardinality({t \in 1..num_tasks : Inside(t)}) <= SemaphoreValue
        /\ semaphore = SemaphoreValue - Cardinality({t \in 1..num_tasks : Inside(t)})

C21_Witness ==
    /\ Cardinality({t \in 1..num_tasks : Inside(t)}) = SemaphoreValue
    /\ \E t \in 1..num_tasks : task_pc[t] = "queued"
    /\ \E t \in 1..num_tasks : task_pc[t] = "capture"

\* C22: a task that fails gives its permit back and does not stop the
\* others: the browser is closed only after every task has finished.
C22_FailureIsolated ==
    /\ browser = "closed" => \A t \in 1..num_tasks : Finished(t)
    /\ (\E t \in 1..num_tasks : task_pc[t] = "failed") =>
          semaphore + Cardinality({t \in 1..num_tasks : Inside(t)}) = SemaphoreValue

\* C30: a task that has finished, by return or by exception, has left no
\* browser context open.
C30_ContextsClosed ==
    (\E t \in 1..num_tasks : Finished(t)) => ~leaked
====
